---------------------------- MODULE Spec2Model ----------------------------
(***************************************************************************)
(* Liability-insurance quote service (nxt-insurance/chatgpt-app).          *)
(*                                                                         *)
(* The model covers LiabilityClient (validateInput, calculateQuote,        *)
(* formatQuoteSummary), the get_liability_quote tool handler, the zod      *)
(* input schema and the CallTool request handler of MCPServer.             *)
(*                                                                         *)
(* JavaScript numbers are IEEE-754 binary64 values.  The premium is a      *)
(* chain of binary64 multiplications and additions, so the model carries   *)
(* binary64 values (53-bit significand, round-to-nearest-even) and not     *)
(* real numbers.  TLC integers are 32 bits wide, therefore significands    *)
(* are kept as little-endian sequences of 15-bit limbs.                    *)
(***************************************************************************)
EXTENDS Integers, Sequences, FiniteSets, TLC

(***************************************************************************)
(* Natural numbers of arbitrary size: little-endian limbs in 0..Limb-1,    *)
(* no leading (most significant) zero limb; zero is the empty sequence.    *)
(***************************************************************************)
LimbBits == 15

Limb == 32768

RECURSIVE BNorm(_)
BNorm(a) ==
  IF a = << >> THEN << >>
  ELSE IF a[Len(a)] = 0 THEN BNorm(SubSeq(a, 1, Len(a) - 1))
  ELSE a

RECURSIVE BFromInt(_)
BFromInt(n) ==
  IF n = 0 THEN << >> ELSE <<n % Limb>> \o BFromInt(n \div Limb)

RECURSIVE BToInt(_)
BToInt(a) ==
  IF a = << >> THEN 0 ELSE Head(a) + Limb * BToInt(Tail(a))

RECURSIVE BAddC(_, _, _)
BAddC(a, b, c) ==
  IF a = << >> /\ b = << >> THEN (IF c = 0 THEN << >> ELSE <<c>>)
  ELSE LET x == IF a = << >> THEN 0 ELSE Head(a)
           y == IF b = << >> THEN 0 ELSE Head(b)
           s == x + y + c
       IN  <<s % Limb>> \o BAddC(IF a = << >> THEN << >> ELSE Tail(a),
                                 IF b = << >> THEN << >> ELSE Tail(b),
                                 s \div Limb)

BAdd(a, b) == BAddC(a, b, 0)

RECURSIVE BMulSmallC(_, _, _)
BMulSmallC(a, d, c) ==
  IF a = << >> THEN (IF c = 0 THEN << >> ELSE <<c>>)
  ELSE LET p == Head(a) * d + c
       IN  <<p % Limb>> \o BMulSmallC(Tail(a), d, p \div Limb)

BMulSmall(a, d) == IF d = 0 THEN << >> ELSE BMulSmallC(a, d, 0)

RECURSIVE BMul(_, _)
BMul(a, b) ==
  IF a = << >> \/ b = << >> THEN << >>
  ELSE LET rest == BMul(a, Tail(b))
       IN  BAdd(BMulSmall(a, Head(b)),
                IF rest = << >> THEN << >> ELSE <<0>> \o rest)

RECURSIVE IntBitLen(_)
IntBitLen(n) == IF n = 0 THEN 0 ELSE 1 + IntBitLen(n \div 2)

BBitLen(a) ==
  IF a = << >> THEN 0
  ELSE LimbBits * (Len(a) - 1) + IntBitLen(a[Len(a)])

BBit(a, i) ==
  LET k == i \div LimbBits
      j == i % LimbBits
  IN  IF k + 1 > Len(a) THEN 0 ELSE (a[k + 1] \div (2 ^ j)) % 2

\* a mod 2^s = 0
BLowZero(a, s) ==
  LET k == s \div LimbBits
      j == s % LimbBits
  IN  /\ \A i \in 1..Len(a) : i <= k => a[i] = 0
      /\ (k + 1 <= Len(a)) => (a[k + 1] % (2 ^ j) = 0)

\* floor(a / 2^s)
BShr(a, s) ==
  LET k == s \div LimbBits
      j == s % LimbBits
      n == Len(a) - k
      limb(i) == IF i > Len(a) THEN 0 ELSE a[i]
  IN  IF n <= 0 THEN << >>
      ELSE BNorm([i \in 1..n |->
                    (limb(i + k) \div (2 ^ j))
                    + (limb(i + k + 1) % (2 ^ j)) * (2 ^ (LimbBits - j))])

\* a * 2^s
BShl(a, s) ==
  IF a = << >> THEN << >>
  ELSE [i \in 1..(s \div LimbBits) |-> 0] \o BMulSmall(a, 2 ^ (s % LimbBits))

\* quotient and remainder of a by a small divisor 0 < d < Limb
RECURSIVE BDivSmall(_, _)
BDivSmall(a, d) ==
  IF a = << >> THEN [q |-> << >>, r |-> 0]
  ELSE LET hi  == BDivSmall(Tail(a), d)
           cur == hi.r * Limb + Head(a)
       IN  [q |-> BNorm(<<cur \div d>> \o hi.q), r |-> cur % d]

(***************************************************************************)
(* binary64 values.  A positive finite double is [m, e] with m a 53-bit    *)
(* significand and value m * 2^e.  All values of this program are positive *)
(* and normal (between 0.15 and 10^5), so zero, signs, subnormals and      *)
(* infinities do not occur.                                                *)
(***************************************************************************)
MantBits == 53

\* the double nearest to M * 2^e (M > 0), ties to even
RoundToDouble(M, e) ==
  LET L == BBitLen(M)
  IN  IF L <= MantBits
      THEN [m |-> BShl(M, MantBits - L), e |-> e - (MantBits - L)]
      ELSE LET s      == L - MantBits
               q      == BShr(M, s)
               half   == BBit(M, s - 1) = 1
               sticky == ~BLowZero(M, s - 1)
               up     == half /\ (sticky \/ BBit(q, 0) = 1)
               q1     == IF up THEN BAdd(q, <<1>>) ELSE q
           IN  IF BBitLen(q1) > MantBits
               THEN [m |-> BShr(q1, 1), e |-> e + s + 1]
               ELSE [m |-> q1, e |-> e + s]

\* x * y
FMul(x, y) == RoundToDouble(BMul(x.m, y.m), x.e + y.e)

\* x + y
FAdd(x, y) ==
  LET e == IF x.e < y.e THEN x.e ELSE y.e
  IN  RoundToDouble(BAdd(BShl(x.m, x.e - e), BShl(y.m, y.e - e)), e)

\* the Number value of a positive integer
FromInt(n) == RoundToDouble(BFromInt(n), 0)

\* the Number value of the decimal literal num/den (num, den > 0, den < Limb):
\* the double nearest to the exact quotient
FromDecimal(num, den) ==
  LET qr == BDivSmall(BShl(BFromInt(num), 64), den)
  IN  RoundToDouble(BAdd(BShl(qr.q, 1), IF qr.r = 0 THEN << >> ELSE <<1>>),
                    0 - 65)

\* Math.round(x) for x > 0: the nearest integer, ties towards +infinity
MathRound(x) ==
  IF x.e >= 0 THEN BToInt(BShl(x.m, x.e))
  ELSE BToInt(BShr(x.m, 0 - x.e)) + BBit(x.m, (0 - x.e) - 1)


(***************************************************************************)
(* Values.  A string whose characters the code inspects (zipCode,          *)
(* effectiveDate) is a sequence of one-character strings.  An optional     *)
(* value (a property that may be undefined) is << >> or <<v>>.             *)
(***************************************************************************)
None == << >>

Some(v) == <<v>>

IsSome(o) == o # << >>

Val(o) == o[1]

Digits == {"0", "1", "2", "3", "4", "5", "6", "7", "8", "9"}

DigitVal == ("0" :> 0) @@ ("1" :> 1) @@ ("2" :> 2) @@ ("3" :> 3) @@ ("4" :> 4)
            @@ ("5" :> 5) @@ ("6" :> 6) @@ ("7" :> 7) @@ ("8" :> 8) @@ ("9" :> 9)

TariffLines == {"basic", "comfort", "premium"}

Deductibles == {0, 150, 300, 500}

MsgZipCode == "Invalid German postal code (must be 5 digits)"

MsgTariffLine == "Invalid tariff line (must be basic, comfort, or premium)"

MsgDeductible == "Invalid deductible amount (must be 0, 150, 300, or 500)"

MsgClaimsNegative == "Number of claims cannot be negative"

MsgClaimsExceeded == "Number of claims exceeds maximum allowed (10)"

MsgEffectiveDate == "Invalid effective date format"

MsgCoverageAmount == "Coverage amount must be between €5,000,000 and €20,000,000"

\* the validator's messages in the order of its checks
RuleOrder ==
  <<MsgZipCode, MsgTariffLine, MsgDeductible, MsgClaimsNegative,
    MsgClaimsExceeded, MsgEffectiveDate, MsgCoverageAmount>>

(***************************************************************************)
(* LiabilityClient.validateInput                                           *)
(***************************************************************************)
\* !params.zipCode || params.zipCode.length !== 5 || !/^\d{5}$/.test(...)
ZipCodeInvalid(zipCode) ==
  \/ zipCode = << >>
  \/ Len(zipCode) # 5
  \/ ~(\A i \in 1..Len(zipCode) : zipCode[i] \in Digits)

\* isNaN(new Date(s).getTime()) is false: s is a date-only ISO string
\* YYYY-MM-DD with month 01..12 and day 01..31 (V8 rolls a day beyond the
\* month's length over into the next month).  The strings of the input sets
\* that are not of this shape are dates in no format V8 knows.
DateParses(s) ==
  /\ Len(s) = 10
  /\ s[5] = "-" /\ s[8] = "-"
  /\ \A i \in {1, 2, 3, 4, 6, 7, 9, 10} : s[i] \in Digits
  /\ LET month == 10 * DigitVal[s[6]] + DigitVal[s[7]]
         day   == 10 * DigitVal[s[9]] + DigitVal[s[10]]
     IN  month \in 1..12 /\ day \in 1..31

\* a number used as a condition: undefined, 0 (and NaN) are falsy
Truthy(o) == IsSome(o) /\ Val(o) # 0

\* lines 44-48
CoverageCheck(params) ==
  IF Truthy(params.coverageAmount)
     /\ (Val(params.coverageAmount) < 5000000
         \/ Val(params.coverageAmount) > 20000000)
  THEN <<MsgCoverageAmount>> ELSE << >>

ClaimsCheckInclusive(params) ==
  (IF params.numberOfClaims <= 0 THEN <<MsgClaimsNegative>> ELSE << >>)
  \o (IF params.numberOfClaims >= 10 THEN <<MsgClaimsExceeded>> ELSE << >>)

\* lines 31-37
ClaimsCheck(params) ==
  (IF params.numberOfClaims < 0 THEN <<MsgClaimsNegative>> ELSE << >>)
  \o (IF params.numberOfClaims > 10 THEN <<MsgClaimsExceeded>> ELSE << >>)

ErrorsFirstOnly(params) ==
  LET all ==
        (IF ZipCodeInvalid(params.zipCode) THEN <<MsgZipCode>> ELSE << >>)
        \o (IF params.tariffLine \notin TariffLines
            THEN <<MsgTariffLine>> ELSE << >>)
        \o (IF params.deductibleAmount \notin Deductibles
            THEN <<MsgDeductible>> ELSE << >>)
        \o ClaimsCheck(params)
        \o (IF ~DateParses(params.effectiveDate)
            THEN <<MsgEffectiveDate>> ELSE << >>)
        \o CoverageCheck(params)
  IN  IF all = << >> THEN << >> ELSE <<Head(all)>>

\* the errors array after lines 17-48
Errors(params) ==
  (IF ZipCodeInvalid(params.zipCode) THEN <<MsgZipCode>> ELSE << >>)
  \o (IF params.tariffLine \notin TariffLines THEN <<MsgTariffLine>> ELSE << >>)
  \o (IF params.deductibleAmount \notin Deductibles
      THEN <<MsgDeductible>> ELSE << >>)
  \o ClaimsCheck(params)
  \o (IF ~DateParses(params.effectiveDate) THEN <<MsgEffectiveDate>> ELSE << >>)
  \o CoverageCheck(params)

\* { valid: errors.length === 0, errors: errors.length > 0 ? errors : undefined }
ValidateInput(params) ==
  LET errors == Errors(params)
  IN  [valid  |-> Len(errors) = 0,
       errors |-> IF Len(errors) > 0 THEN Some(errors) ELSE None]

(***************************************************************************)
(* LiabilityClient.calculateQuote: the pricing steps, each a function of   *)
(* the request and the running monthlyPremium (a double).                  *)
(***************************************************************************)
\* coverageAmounts[params.tariffLine]
CoverageAmounts(tariffLine) ==
  CASE tariffLine = "basic"   -> 5000000
    [] tariffLine = "comfort" -> 10000000
    [] tariffLine = "premium" -> 20000000

ResolveCoverageNullish(params) ==
  IF IsSome(params.coverageAmount) THEN Val(params.coverageAmount)
  ELSE CoverageAmounts(params.tariffLine)

\* params.coverageAmount || coverageAmounts[params.tariffLine]
ResolveCoverage(params) ==
  IF Truthy(params.coverageAmount) THEN Val(params.coverageAmount)
  ELSE CoverageAmounts(params.tariffLine)

\* basePremiums[params.tariffLine]: the literals 5.99, 9.99, 14.99
BasePremiums(tariffLine) ==
  CASE tariffLine = "basic"   -> FromDecimal(599, 100)
    [] tariffLine = "comfort" -> FromDecimal(999, 100)
    [] tariffLine = "premium" -> FromDecimal(1499, 100)

\* if (params.familyCoverage) monthlyPremium *= 1.5
ApplyFamily(params, m) ==
  IF params.familyCoverage THEN FMul(m, FromDecimal(15, 10)) ELSE m

\* if (params.dronesCoverage) monthlyPremium += 2.50
ApplyDrones(params, m) ==
  IF params.dronesCoverage THEN FAdd(m, FromDecimal(250, 100)) ELSE m

DeductibleDiscountsTwoTier(deductibleAmount) ==
  CASE deductibleAmount = 0   -> FromInt(1)
    [] deductibleAmount = 150 -> FromDecimal(9, 10)
    [] deductibleAmount = 300 -> FromDecimal(8, 10)
    [] deductibleAmount = 500 -> FromDecimal(8, 10)

\* deductibleDiscounts[params.deductibleAmount]: 1.0, 0.9, 0.85, 0.8
DeductibleDiscounts(deductibleAmount) ==
  CASE deductibleAmount = 0   -> FromInt(1)
    [] deductibleAmount = 150 -> FromDecimal(9, 10)
    [] deductibleAmount = 300 -> FromDecimal(85, 100)
    [] deductibleAmount = 500 -> FromDecimal(8, 10)

ApplyDeductibleLoyalty(params, m) ==
  IF params.previousInsurance
  THEN FMul(FMul(m, DeductibleDiscounts(params.deductibleAmount)),
            FromDecimal(95, 100))
  ELSE FMul(m, DeductibleDiscounts(params.deductibleAmount))

\* monthlyPremium *= deductibleDiscounts[params.deductibleAmount]
ApplyDeductible(params, m) ==
  FMul(m, DeductibleDiscounts(params.deductibleAmount))

RECURSIVE Compound(_, _)
Compound(m, n) ==
  IF n = 0 THEN m ELSE Compound(FMul(m, FromDecimal(115, 100)), n - 1)

ApplyClaimsCompounded(params, m) ==
  IF params.numberOfClaims > 0 THEN Compound(m, params.numberOfClaims) ELSE m

\* if (params.numberOfClaims > 0) monthlyPremium *= 1 + (numberOfClaims * 0.15)
ApplyClaims(params, m) ==
  IF params.numberOfClaims > 0
  THEN FMul(m, FAdd(FromInt(1),
                    FMul(FromInt(params.numberOfClaims), FromDecimal(15, 100))))
  ELSE m

\* if (params.cancelledByInsurer) monthlyPremium *= 1.3
ApplyCancelled(params, m) ==
  IF params.cancelledByInsurer THEN FMul(m, FromDecimal(13, 10)) ELSE m

\* Math.round(x * 100) / 100, held as the integer number of cents k: the
\* quotient k / 100 is the double nearest to k/100, one double per k
Round2(x) == MathRound(FMul(x, FromInt(100)))

AnnualOfRounded(m) == FMul(FromDecimal(Round2(m), 100), FromInt(12))

\* const annualPremium = monthlyPremium * 12
AnnualOf(m) == FMul(m, FromInt(12))

ExtensionsFamilyFirst(params) ==
  (IF params.familyCoverage THEN <<"family_coverage">> ELSE << >>)
  \o (IF params.dronesCoverage THEN <<"drones_coverage">> ELSE << >>)

\* the extensions array after lines 110-116
ExtensionsOf(params) ==
  (IF params.dronesCoverage THEN <<"drones_coverage">> ELSE << >>)
  \o (IF params.familyCoverage THEN <<"family_coverage">> ELSE << >>)

\* 30 * 24 * 60 * 60 * 1000 ms
ThirtyDays == BMulSmall(BFromInt(30 * 24 * 60 * 60), 1000)


(***************************************************************************)
(* LiabilityClient.formatQuoteSummary                                      *)
(***************************************************************************)
\* Number -> string for k / 100 (k cents): the shortest decimal, so no
\* trailing zeros
NumText(k) ==
  LET whole == k \div 100
      frac  == k % 100
  IN  IF frac = 0 THEN ToString(whole)
      ELSE IF frac % 10 = 0 THEN ToString(whole) \o "." \o ToString(frac \div 10)
      ELSE IF frac < 10 THEN ToString(whole) \o ".0" \o ToString(frac)
      ELSE ToString(whole) \o "." \o ToString(frac)

\* three digits, zero padded
Pad3(n) ==
  IF n < 10 THEN "00" \o ToString(n)
  ELSE IF n < 100 THEN "0" \o ToString(n)
  ELSE ToString(n)

\* Number.prototype.toLocaleString() of a non-negative integer: digits in
\* groups of three
RECURSIVE Grouped(_)
Grouped(n) ==
  IF n < 1000 THEN ToString(n)
  ELSE Grouped(n \div 1000) \o "," \o Pad3(n % 1000)

\* new Date(validUntil).toLocaleDateString(): the text names the calendar day
\* of the timestamp; it is held as the day's number since the epoch
LocaleDate(ms) ==
  LET seconds == BDivSmall(ms, 1000).q
      hours   == BDivSmall(seconds, 3600).q
  IN  "day " \o ToString(BToInt(BDivSmall(hours, 24).q))

RECURSIVE Join(_, _)
Join(parts, sep) ==
  IF parts = << >> THEN ""
  ELSE IF Len(parts) = 1 THEN parts[1]
  ELSE parts[1] \o sep \o Join(Tail(parts), sep)

Includes(seq, x) == \E i \in 1..Len(seq) : seq[i] = x

SummaryPartsDronesFirst(quote) ==
  <<"Liability Insurance Quote: €" \o NumText(quote.monthlyPremium)
      \o "/month (€" \o NumText(quote.annualPremium) \o "/year)">>
  \o <<"Coverage: €" \o Grouped(quote.coverageSum) \o " " \o quote.tariffLine>>
  \o (IF quote.deductible > 0
      THEN <<"Deductible: €" \o ToString(quote.deductible)>>
      ELSE <<"No deductible">>)
  \o (IF Includes(quote.extensions, "drones_coverage")
      THEN <<"Includes drone liability">> ELSE << >>)
  \o (IF Includes(quote.extensions, "family_coverage")
      THEN <<"Includes family coverage">> ELSE << >>)
  \o <<"Territory: " \o quote.territory>>
  \o <<"Valid until: " \o LocaleDate(quote.validUntil)>>

\* the parts array after lines 138-158
SummaryParts(quote) ==
  <<"Liability Insurance Quote: €" \o NumText(quote.monthlyPremium)
      \o "/month (€" \o NumText(quote.annualPremium) \o "/year)">>
  \o <<"Coverage: €" \o Grouped(quote.coverageSum) \o " " \o quote.tariffLine>>
  \o (IF quote.deductible > 0
      THEN <<"Deductible: €" \o ToString(quote.deductible)>>
      ELSE <<"No deductible">>)
  \o (IF quote.familyCoverage THEN <<"Includes family coverage">> ELSE << >>)
  \o (IF Includes(quote.extensions, "drones_coverage")
      THEN <<"Includes drone liability">> ELSE << >>)
  \o <<"Territory: " \o quote.territory>>
  \o <<"Valid until: " \o LocaleDate(quote.validUntil)>>

\* parts.join('. ') + '.'
FormatQuoteSummary(quote) == Join(SummaryParts(quote), ". ") \o "."

(***************************************************************************)
(* LiabilityQuoteInputSchema (zod).  The arguments of a tool call are a    *)
(* record of optional properties; parse fills the defaults.                *)
(***************************************************************************)
\* z.string().regex(/^\d{4}-\d{2}-\d{2}$/)
DateShape(s) ==
  /\ Len(s) = 10
  /\ s[5] = "-" /\ s[8] = "-"
  /\ \A i \in {1, 2, 3, 4, 6, 7, 9, 10} : s[i] \in Digits

WithDefault(o, d) == IF IsSome(o) THEN Val(o) ELSE d

\* the value parse returns: defaults filled, coverageAmount still optional
SchemaOutput(a) ==
  [zipCode            |-> Val(a.zipCode),
   tariffLine         |-> Val(a.tariffLine),
   familyCoverage     |-> WithDefault(a.familyCoverage, FALSE),
   dronesCoverage     |-> WithDefault(a.dronesCoverage, FALSE),
   deductibleAmount   |-> WithDefault(a.deductibleAmount, 0),
   previousInsurance  |-> WithDefault(a.previousInsurance, FALSE),
   numberOfClaims     |-> WithDefault(a.numberOfClaims, 0),
   cancelledByInsurer |-> WithDefault(a.cancelledByInsurer, FALSE),
   effectiveDate      |-> Val(a.effectiveDate),
   coverageAmount     |-> a.coverageAmount]

SchemaIssuesAnyFiveCharacters(a) ==
  (IF IsSome(a.zipCode) /\ Len(Val(a.zipCode)) = 5
   THEN << >> ELSE <<"zipCode">>)
  \o (IF IsSome(a.tariffLine) /\ Val(a.tariffLine) \in TariffLines
      THEN << >> ELSE <<"tariffLine">>)
  \o (IF WithDefault(a.deductibleAmount, 0) \in Deductibles
      THEN << >> ELSE <<"deductibleAmount">>)
  \o (IF WithDefault(a.numberOfClaims, 0) \in 0..10
      THEN << >> ELSE <<"numberOfClaims">>)
  \o (IF IsSome(a.effectiveDate) /\ DateShape(Val(a.effectiveDate))
      THEN << >> ELSE <<"effectiveDate">>)
  \o (IF IsSome(a.coverageAmount)
         /\ ~(Val(a.coverageAmount) >= 5000000
              /\ Val(a.coverageAmount) <= 20000000)
      THEN <<"coverageAmount">> ELSE << >>)

\* the paths of the issues parse raises, in the order of the schema's keys
SchemaIssues(a) ==
  (IF IsSome(a.zipCode) /\ ~ZipCodeInvalid(Val(a.zipCode))
   THEN << >> ELSE <<"zipCode">>)
  \o (IF IsSome(a.tariffLine) /\ Val(a.tariffLine) \in TariffLines
      THEN << >> ELSE <<"tariffLine">>)
  \o (IF WithDefault(a.deductibleAmount, 0) \in Deductibles
      THEN << >> ELSE <<"deductibleAmount">>)
  \o (IF WithDefault(a.numberOfClaims, 0) \in 0..10
      THEN << >> ELSE <<"numberOfClaims">>)
  \o (IF IsSome(a.effectiveDate) /\ DateShape(Val(a.effectiveDate))
      THEN << >> ELSE <<"effectiveDate">>)
  \o (IF IsSome(a.coverageAmount)
         /\ ~(Val(a.coverageAmount) >= 5000000
              /\ Val(a.coverageAmount) <= 20000000)
      THEN <<"coverageAmount">> ELSE << >>)


(***************************************************************************)
(* Bounds and input sets                                                   *)
(***************************************************************************)
\* the clock (Date.now(), in ms) runs over 0..MaxNow
MaxNow == 1

\* tool calls that can be in progress at the same time
NumCalls == 2

\* numberOfClaims is drawn from -1..MaxClaimsInput
MaxClaimsInput == 11

Calls == 1..NumCalls

ZipCodes ==
  { <<"1", "0", "1", "1", "5">>, <<"1", "2", "3", "4">>,
    <<"1", "2", "3", "4", "a">>, <<"1", "2", "3", "4", "5", "6">>, << >> }

EffectiveDates ==
  { <<"2", "0", "2", "5", "-", "0", "1", "-", "0", "1">>,
    <<"2", "0", "2", "5", "-", "1", "3", "-", "4", "5">>,
    <<"i", "n", "v", "a", "l", "i", "d", "-", "d", "a", "t", "e">> }

TariffInputs == TariffLines \cup {"invalid"}

DeductibleInputs == Deductibles \cup {250}

ClaimsInputs == (0 - 1)..MaxClaimsInput

CoverageInputs ==
  { None, Some(0), Some(0 - 1), Some(4999999), Some(5000000), Some(15000000),
    Some(20000000), Some(20000001), Some(30000000) }

\* requests for validateInput: every combination of the validated fields
ValidateInputs ==
  [zipCode            : ZipCodes,
   tariffLine         : TariffInputs,
   familyCoverage     : {FALSE},
   dronesCoverage     : {FALSE},
   deductibleAmount   : DeductibleInputs,
   previousInsurance  : {FALSE},
   numberOfClaims     : ClaimsInputs,
   cancelledByInsurer : {FALSE},
   effectiveDate      : EffectiveDates,
   coverageAmount     : CoverageInputs]

\* values of the fields that pricing does not read, for valid requests
OtherFields ==
  { [zipCode |-> <<"1", "0", "1", "1", "5">>, previousInsurance |-> FALSE,
     effectiveDate |-> <<"2", "0", "2", "5", "-", "0", "1", "-", "0", "1">>,
     coverageAmount |-> None],
    [zipCode |-> <<"8", "0", "3", "3", "1">>, previousInsurance |-> TRUE,
     effectiveDate |-> <<"2", "0", "2", "6", "-", "1", "2", "-", "3", "1">>,
     coverageAmount |-> Some(15000000)],
    [zipCode |-> <<"1", "0", "1", "1", "5">>, previousInsurance |-> TRUE,
     effectiveDate |-> <<"2", "0", "2", "5", "-", "0", "1", "-", "0", "1">>,
     coverageAmount |-> Some(0)],
    [zipCode |-> <<"8", "0", "3", "3", "1">>, previousInsurance |-> FALSE,
     effectiveDate |-> <<"2", "0", "2", "5", "-", "0", "1", "-", "0", "1">>,
     coverageAmount |-> Some(5000000)] }

\* requests for calculateQuote: every combination of the pricing fields with
\* the other fields valid, and requests with one or more invalid fields
PricingInputs ==
  { [zipCode            |-> o.zipCode,
     tariffLine         |-> t,
     familyCoverage     |-> fam,
     dronesCoverage     |-> dr,
     deductibleAmount   |-> d,
     previousInsurance  |-> o.previousInsurance,
     numberOfClaims     |-> n,
     cancelledByInsurer |-> canc,
     effectiveDate      |-> o.effectiveDate,
     coverageAmount     |-> o.coverageAmount] :
    o \in OtherFields, t \in TariffLines, fam \in BOOLEAN, dr \in BOOLEAN,
    d \in Deductibles, n \in 0..10, canc \in BOOLEAN }

InvalidInputs ==
  [zipCode            : {<<"1", "0", "1", "1", "5">>, <<"1", "2", "3", "4">>},
   tariffLine         : {"comfort", "invalid"},
   familyCoverage     : {TRUE},
   dronesCoverage     : {FALSE},
   deductibleAmount   : {150, 250},
   previousInsurance  : {FALSE},
   numberOfClaims     : {0 - 1, 1, MaxClaimsInput},
   cancelledByInsurer : {FALSE},
   effectiveDate      : EffectiveDates,
   coverageAmount     : {None, Some(0), Some(4999999), Some(20000001)}]

QuoteInputs == PricingInputs \cup InvalidInputs

\* the object {} as validateInput reads it.  A property that is missing reads
\* as undefined: !undefined is true (the empty string behaves the same),
\* includes(undefined) is false in both lists (as for 'undefined' and -1),
\* undefined < 0 and undefined > 10 are false (as for 0), new Date(undefined)
\* is an Invalid Date, and an undefined coverageAmount is not checked.
EmptyObject ==
  [zipCode            |-> << >>,
   tariffLine         |-> "undefined",
   familyCoverage     |-> FALSE,
   dronesCoverage     |-> FALSE,
   deductibleAmount   |-> 0 - 1,
   previousInsurance  |-> FALSE,
   numberOfClaims     |-> 0,
   cancelledByInsurer |-> FALSE,
   effectiveDate      |-> <<"u", "n", "d", "e", "f", "i", "n", "e", "d">>,
   coverageAmount     |-> None]

\* what a caller hands to the tool's handler: a request, valid or not, the
\* object {} or null
HandlerInputs == { Some(p) : p \in QuoteInputs \cup {EmptyObject} } \cup {None}

\* quotes handed to formatQuoteSummary on its own (as the unit tests do):
\* objects of type LiabilityQuote, whose familyCoverage flag and extensions
\* need not agree
SummaryQuotes ==
  [quoteId        : {[ts |-> 0, suffix |-> "k3f9x"]},
   monthlyPremium : {599, 1349, 1500, 1505},
   annualPremium  : {7188, 16184},
   currency       : {"EUR"},
   coverageSum    : {5000000, 10000000, 15500000},
   deductible     : {0, 150, 500},
   territory      : {"Worldwide"},
   includedRisks  : {<<"personal_injury", "property_damage", "financial_loss">>},
   extensions     : { << >>, <<"drones_coverage">>, <<"family_coverage">>,
                      <<"drones_coverage", "family_coverage">>,
                      <<"family_coverage", "drones_coverage">> },
   validUntil     : { ThirtyDays,
                      BAdd(ThirtyDays, BMulSmall(BFromInt(24 * 60 * 60), 1000)) },
   tariffLine     : TariffLines,
   familyCoverage : BOOLEAN]

\* Math.random().toString(36).substring(7): the value only lands in quoteId and
\* no statement reads it back, so one value stands for all of them
RandomSuffixes == {"k3f9x"}

ToolName == "get_liability_quote"

\* the arguments of the tool calls (absent properties are None)
ArgsFull ==
  [zipCode            |-> Some(<<"1", "0", "1", "1", "5">>),
   tariffLine         |-> Some("comfort"),
   familyCoverage     |-> Some(TRUE),
   dronesCoverage     |-> Some(FALSE),
   deductibleAmount   |-> Some(150),
   previousInsurance  |-> Some(FALSE),
   numberOfClaims     |-> Some(1),
   cancelledByInsurer |-> Some(FALSE),
   effectiveDate      |-> Some(<<"2", "0", "2", "5", "-", "0", "1", "-", "0", "1">>),
   coverageAmount     |-> None]

ArgsMinimal ==
  [zipCode            |-> Some(<<"1", "0", "1", "1", "5">>),
   tariffLine         |-> Some("basic"),
   familyCoverage     |-> None,
   dronesCoverage     |-> None,
   deductibleAmount   |-> None,
   previousInsurance  |-> None,
   numberOfClaims     |-> None,
   cancelledByInsurer |-> None,
   effectiveDate      |-> Some(<<"2", "0", "2", "5", "-", "0", "1", "-", "0", "1">>),
   coverageAmount     |-> None]

\* valid arguments, arguments the schema rejects, and arguments the schema
\* accepts and the core's validator rejects
CallArguments ==
  { ArgsFull,
    ArgsMinimal,
    [ArgsFull EXCEPT !.zipCode = Some(<<"1", "2", "3", "4">>)],
    [ArgsFull EXCEPT !.effectiveDate =
        Some(<<"2", "0", "2", "5", "-", "1", "3", "-", "4", "5">>)] }

\* argument objects for the schema on its own: each property present or
\* missing, with values on both sides of every rule of the schema and of
\* validateInput
SchemaArguments ==
  [zipCode            : { None, Some(<<"1", "0", "1", "1", "5">>),
                          Some(<<"1", "2", "3", "4">>),
                          Some(<<"1", "2", "3", "4", "a">>) },
   tariffLine         : { None, Some("comfort"), Some("invalid") },
   familyCoverage     : { None, Some(TRUE) },
   dronesCoverage     : { None },
   deductibleAmount   : { None, Some(150), Some(250) },
   previousInsurance  : { None },
   numberOfClaims     : { None, Some(0 - 1), Some(10), Some(MaxClaimsInput) },
   cancelledByInsurer : { None },
   effectiveDate      : { None,
                          Some(<<"2", "0", "2", "5", "-", "0", "1", "-", "0", "1">>),
                          Some(<<"2", "0", "2", "5", "-", "0", "2", "-", "3", "0">>),
                          Some(<<"2", "0", "2", "5", "-", "0", "0", "-", "1", "0">>),
                          Some(<<"2", "0", "2", "5", "-", "1", "3", "-", "4", "5">>),
                          Some(<<"0", "1", ".", "0", "1", ".", "2", "0", "2", "5">>) },
   coverageAmount     : { None, Some(0), Some(4999999), Some(5000000),
                          Some(20000000), Some(20000001) }]

\* the tool calls clients make: the quote tool with each of the arguments, and
\* a tool the server does not have
ToolCalls ==
  { [name |-> ToolName, arguments |-> a] : a \in CallArguments }
  \cup { [name |-> "get_car_quote", arguments |-> ArgsFull] }

(***************************************************************************)
(* State.  call[c] is the frame of tool call c: its position pc, the       *)
(* request, the locals of calculateQuote, what each layer returned and     *)
(* what the server's logger wrote for the call.                            *)
(* running is the call that holds the JavaScript thread (0: none): a       *)
(* synchronous stretch of code runs to its end before another call moves.  *)
(***************************************************************************)
VARIABLES call, now, running

vars == <<call, now, running>>

Blank ==
  [pc             |-> "idle",
   name           |-> "",
   arguments      |-> None,
   params         |-> None,
   validation     |-> None,
   coverageAmount |-> None,
   monthlyPremium |-> None,
   annualPremium  |-> None,
   extensions     |-> << >>,
   quote          |-> None,
   thrown         |-> None,
   result         |-> None,
   response       |-> None,
   log            |-> << >>]

Upd(c, f) == call' = [call EXCEPT ![c] = f]

\* the position of a call moves and nothing else changes
Goto(c, pc) == Upd(c, [call[c] EXCEPT !.pc = pc])

(***************************************************************************)
(* LiabilityClient.validateInput called on its own (as the unit tests do)  *)
(***************************************************************************)
ValidateInputCall(c) ==
  /\ call[c].pc = "validateInput"
  /\ Upd(c, [call[c] EXCEPT !.pc = "validated",
                            !.validation = Some(ValidateInput(Val(call[c].params)))])
  /\ UNCHANGED <<now, running>>

(***************************************************************************)
(* LiabilityClient.calculateQuote, statement by statement                  *)
(***************************************************************************)
ValidationErrorWithoutDetails(validation) ==
  [name |-> "ValidationError", message |-> "Invalid parameters", details |-> None]

\* lines 62-65: new ValidationError('Invalid parameters', validation.errors)
ValidationError(validation) ==
  [name    |-> "ValidationError",
   message |-> "Invalid parameters",
   details |-> validation.errors]

\* line 19 with params null: the read of params.zipCode throws
NullRead ==
  [name    |-> "TypeError",
   message |-> "Cannot read properties of null (reading 'zipCode')",
   details |-> None]

\* lines 60-66: validate, throw the ValidationError when invalid.  With null
\* for params, validateInput throws at its first read.
Validate(c) ==
  /\ call[c].pc = "validate" /\ running = c
  /\ IF ~IsSome(call[c].params)
     THEN Upd(c, [call[c] EXCEPT !.pc = "thrown", !.thrown = Some(NullRead)])
     ELSE LET validation == ValidateInput(Val(call[c].params))
          IN  IF ~validation.valid
              THEN Upd(c, [call[c] EXCEPT
                      !.pc = "thrown",
                      !.validation = Some(validation),
                      !.thrown = Some(ValidationError(validation))])
              ELSE Upd(c, [call[c] EXCEPT !.pc = "coverage",
                                          !.validation = Some(validation)])
  /\ UNCHANGED <<now, running>>

\* line 74
Coverage(c) ==
  /\ call[c].pc = "coverage" /\ running = c
  /\ Upd(c, [call[c] EXCEPT
          !.pc = "base",
          !.coverageAmount = Some(ResolveCoverage(Val(call[c].params)))])
  /\ UNCHANGED <<now, running>>

\* line 82
Base(c) ==
  /\ call[c].pc = "base" /\ running = c
  /\ Upd(c, [call[c] EXCEPT
          !.pc = "family",
          !.monthlyPremium = Some(BasePremiums(Val(call[c].params).tariffLine))])
  /\ UNCHANGED <<now, running>>

\* lines 84-86
Family(c) ==
  /\ call[c].pc = "family" /\ running = c
  /\ Upd(c, [call[c] EXCEPT
          !.pc = "drones",
          !.monthlyPremium =
             Some(ApplyFamily(Val(call[c].params), Val(call[c].monthlyPremium)))])
  /\ UNCHANGED <<now, running>>

\* lines 88-90
Drones(c) ==
  /\ call[c].pc = "drones" /\ running = c
  /\ Upd(c, [call[c] EXCEPT
          !.pc = "deductible",
          !.monthlyPremium =
             Some(ApplyDrones(Val(call[c].params), Val(call[c].monthlyPremium)))])
  /\ UNCHANGED <<now, running>>

\* lines 92-98
Deductible(c) ==
  /\ call[c].pc = "deductible" /\ running = c
  /\ Upd(c, [call[c] EXCEPT
          !.pc = "claims",
          !.monthlyPremium =
             Some(ApplyDeductible(Val(call[c].params), Val(call[c].monthlyPremium)))])
  /\ UNCHANGED <<now, running>>

\* lines 100-102
Claims(c) ==
  /\ call[c].pc = "claims" /\ running = c
  /\ Upd(c, [call[c] EXCEPT
          !.pc = "cancelled",
          !.monthlyPremium =
             Some(ApplyClaims(Val(call[c].params), Val(call[c].monthlyPremium)))])
  /\ UNCHANGED <<now, running>>

\* lines 104-106
Cancelled(c) ==
  /\ call[c].pc = "cancelled" /\ running = c
  /\ Upd(c, [call[c] EXCEPT
          !.pc = "annual",
          !.monthlyPremium =
             Some(ApplyCancelled(Val(call[c].params), Val(call[c].monthlyPremium)))])
  /\ UNCHANGED <<now, running>>

\* line 108
Annual(c) ==
  /\ call[c].pc = "annual" /\ running = c
  /\ Upd(c, [call[c] EXCEPT
          !.pc = "extensions",
          !.annualPremium = Some(AnnualOf(Val(call[c].monthlyPremium)))])
  /\ UNCHANGED <<now, running>>

\* lines 110-116
Extensions(c) ==
  /\ call[c].pc = "extensions" /\ running = c
  /\ Upd(c, [call[c] EXCEPT !.pc = "build",
                            !.extensions = ExtensionsOf(Val(call[c].params))])
  /\ UNCHANGED <<now, running>>

QuoteObjectRisksUnordered(f, t1, t2, suffix) ==
  [quoteId        |-> [ts |-> t1, suffix |-> suffix],
   monthlyPremium |-> Round2(Val(f.monthlyPremium)),
   annualPremium  |-> Round2(Val(f.annualPremium)),
   currency       |-> "EUR",
   coverageSum    |-> Val(f.coverageAmount),
   deductible     |-> Val(f.params).deductibleAmount,
   territory      |-> "Worldwide",
   includedRisks  |-> <<"property_damage", "personal_injury", "financial_loss">>,
   extensions     |-> f.extensions,
   validUntil     |-> BAdd(BFromInt(t2), ThirtyDays),
   tariffLine     |-> Val(f.params).tariffLine,
   familyCoverage |-> Val(f.params).familyCoverage]

\* the object of lines 118-131, given the two readings of Date.now() and the
\* value of Math.random()
QuoteObject(f, t1, t2, suffix) ==
  [quoteId        |-> [ts |-> t1, suffix |-> suffix],
   monthlyPremium |-> Round2(Val(f.monthlyPremium)),
   annualPremium  |-> Round2(Val(f.annualPremium)),
   currency       |-> "EUR",
   coverageSum    |-> Val(f.coverageAmount),
   deductible     |-> Val(f.params).deductibleAmount,
   territory      |-> "Worldwide",
   includedRisks  |-> <<"personal_injury", "property_damage", "financial_loss">>,
   extensions     |-> f.extensions,
   validUntil     |-> BAdd(BFromInt(t2), ThirtyDays),
   tariffLine     |-> Val(f.params).tariffLine,
   familyCoverage |-> Val(f.params).familyCoverage]

\* lines 118-131: Date.now() is read for quoteId and again for validUntil;
\* the clock may have advanced in between
BuildQuote(c) ==
  /\ call[c].pc = "build" /\ running = c
  /\ \E t2 \in now..MaxNow, suffix \in RandomSuffixes :
       /\ Upd(c, [call[c] EXCEPT
               !.pc = "returned",
               !.quote = Some(QuoteObject(call[c], now, t2, suffix))])
       /\ now' = t2
  /\ UNCHANGED running

CalculateQuote(c) ==
  \/ Validate(c)
  \/ Coverage(c)
  \/ Base(c)
  \/ Family(c)
  \/ Drones(c)
  \/ Deductible(c)
  \/ Claims(c)
  \/ Cancelled(c)
  \/ Annual(c)
  \/ Extensions(c)
  \/ BuildQuote(c)

(***************************************************************************)
(* LiabilityClient.formatQuoteSummary called on its own                    *)
(***************************************************************************)
FormatQuoteSummaryCall(c) ==
  /\ call[c].pc = "formatQuoteSummary"
  /\ Upd(c, [call[c] EXCEPT !.pc = "formatted",
                            !.result = Some(FormatQuoteSummary(Val(call[c].quote)))])
  /\ UNCHANGED <<now, running>>

(***************************************************************************)
(* The handler of the get_liability_quote tool                             *)
(***************************************************************************)
\* line 78: await client.calculateQuote(params) gives up the thread
Yield(c) ==
  /\ call[c].pc \in {"returned", "thrown"} /\ running = c
  /\ running' = 0
  /\ UNCHANGED <<call, now>>

AwaitedQuoteShared(c) ==
  IF IsSome(call[1].quote) THEN call[1].quote ELSE call[c].quote

\* line 78: const quote = await ...: the quote this call's calculateQuote made
AwaitedQuote(c) == call[c].quote

\* lines 79-85
FormatSummary(c) ==
  /\ call[c].pc = "returned" /\ running = 0
  /\ Upd(c, [call[c] EXCEPT
          !.pc = "handled",
          !.result = Some([success |-> TRUE,
                           quote   |-> AwaitedQuote(c),
                           error   |-> None,
                           summary |-> Some(FormatQuoteSummary(Val(AwaitedQuote(c))))])])
  /\ UNCHANGED <<now, running>>

CatchResultFirstDetail(error) ==
  IF error.name = "ValidationError"
  THEN [success |-> FALSE,
        quote   |-> None,
        error   |-> Some("Validation error: " \o error.message),
        summary |-> Some("Failed to calculate quote: "
                         \o (IF IsSome(error.details) /\ Val(error.details) # << >>
                             THEN Head(Val(error.details))
                             ELSE error.message))]
  ELSE [success |-> FALSE,
        quote   |-> None,
        error   |-> Some(error.message),
        summary |-> Some("Failed to calculate quote due to an unexpected error")]

\* lines 86-100: the result for a caught error
CatchResult(error) ==
  IF error.name = "ValidationError"
  THEN [success |-> FALSE,
        quote   |-> None,
        error   |-> Some("Validation error: " \o error.message),
        summary |-> Some("Failed to calculate quote: "
                         \o (IF IsSome(error.details)
                                /\ Join(Val(error.details), ", ") # ""
                             THEN Join(Val(error.details), ", ")
                             ELSE error.message))]
  ELSE [success |-> FALSE,
        quote   |-> None,
        error   |-> Some(error.message),
        summary |-> Some("Failed to calculate quote due to an unexpected error")]

HandlerCatchValidationOnly(c) ==
  /\ call[c].pc = "thrown" /\ running = 0
  /\ IF Val(call[c].thrown).name = "ValidationError"
     THEN Upd(c, [call[c] EXCEPT !.pc = "handled",
                                 !.result = Some(CatchResult(Val(call[c].thrown)))])
     ELSE Goto(c, "raised")
  /\ UNCHANGED <<now, running>>

\* lines 86-100: the catch block returns the result
HandlerCatch(c) ==
  /\ call[c].pc = "thrown" /\ running = 0
  /\ Upd(c, [call[c] EXCEPT !.pc = "handled",
                            !.result = Some(CatchResult(Val(call[c].thrown)))])
  /\ UNCHANGED <<now, running>>

(***************************************************************************)
(* MCPServer: the CallTool request handler                                 *)
(***************************************************************************)
\* a request arrives and its handler starts to run
CallToolRequest(c) ==
  /\ call[c].pc = "idle" /\ running = 0
  /\ \E request \in ToolCalls :
       Upd(c, [Blank EXCEPT !.pc = "lookup",
                            !.name = request.name,
                            !.arguments = Some(request.arguments)])
  /\ running' = c
  /\ UNCHANGED now

\* what one call of this.logger.info / this.logger.error writes; success is
\* the success property of the metadata, where there is one
LogEntry(level, message, success) ==
  [level |-> level, message |-> message, success |-> success]

\* lines 64-70: tools.find, throw new Error(`Unknown tool: ...`)
FindTool(c) ==
  /\ call[c].pc = "lookup" /\ running = c
  /\ IF call[c].name = ToolName
     THEN Goto(c, "parse") /\ UNCHANGED running
     ELSE /\ Upd(c, [call[c] EXCEPT
                 !.pc = "rejected",
                 !.thrown = Some([name    |-> "Error",
                                  message |-> "Unknown tool: " \o call[c].name,
                                  details |-> None]),
                 !.log = Append(@, LogEntry("error", "Tool not found", None))])
          /\ running' = 0
  /\ UNCHANGED now

\* lines 73-78, and lines 94-111 when parse throws a ZodError (its message
\* lists the issues)
SchemaParse(c) ==
  /\ call[c].pc = "parse" /\ running = c
  /\ LET issues == SchemaIssues(Val(call[c].arguments))
     IN  IF issues = << >>
         THEN /\ Upd(c, [call[c] EXCEPT
                     !.pc = "handler",
                     !.params = Some(SchemaOutput(Val(call[c].arguments))),
                     !.log = Append(@, LogEntry("info", "Executing tool", None))])
              /\ UNCHANGED running
         ELSE /\ Upd(c, [call[c] EXCEPT
                     !.pc = "done",
                     !.log = @ \o <<LogEntry("info", "Executing tool", None),
                                    LogEntry("error", "Tool execution failed", None)>>,
                     !.thrown = Some([name    |-> "ZodError",
                                      message |-> "issues: " \o Join(issues, ", "),
                                      details |-> None]),
                     !.response =
                        Some([isError |-> TRUE,
                              payload |-> [success |-> FALSE,
                                           quote   |-> None,
                                           error   |-> Some("issues: "
                                                            \o Join(issues, ", ")),
                                           summary |-> None]])])
              /\ running' = 0
  /\ UNCHANGED now

InvokeHandlerUnvalidated(c) ==
  /\ call[c].pc = "handler" /\ running = c
  /\ Goto(c, "coverage")
  /\ UNCHANGED <<now, running>>

\* line 79: tool.handler(validatedParams), which calls calculateQuote at once
InvokeHandler(c) ==
  /\ call[c].pc = "handler" /\ running = c
  /\ Goto(c, "validate")
  /\ UNCHANGED <<now, running>>

RespondByPayload(c) ==
  /\ call[c].pc = "handled" /\ running = 0
  /\ Upd(c, [call[c] EXCEPT
          !.pc = "done",
          !.log = Append(@, IF Val(call[c].result).success
                            THEN LogEntry("info", "Tool execution completed", Some(TRUE))
                            ELSE LogEntry("error", "Tool execution failed", None)),
          !.response = Some([isError |-> ~Val(call[c].result).success,
                             payload |-> Val(call[c].result)])])
  /\ UNCHANGED <<now, running>>

\* lines 81-93
Respond(c) ==
  /\ call[c].pc = "handled" /\ running = 0
  /\ Upd(c, [call[c] EXCEPT
          !.pc = "done",
          !.log = Append(@, LogEntry("info", "Tool execution completed", Some(TRUE))),
          !.response = Some([isError |-> FALSE, payload |-> Val(call[c].result)])])
  /\ UNCHANGED <<now, running>>

\* the response (or the protocol error) has gone out; the slot is free again
Return(c) ==
  /\ call[c].pc \in {"done", "rejected"}
  /\ Upd(c, Blank)
  /\ UNCHANGED <<now, running>>

\* time passes
Tick ==
  /\ now < MaxNow
  /\ now' = now + 1
  /\ UNCHANGED <<call, running>>

(***************************************************************************)
(* Specifications                                                          *)
(***************************************************************************)
\* validateInput applied to one request
InitValidate ==
  /\ \E p \in ValidateInputs :
       call = [c \in Calls |->
                 IF c = 1 THEN [Blank EXCEPT !.pc = "validateInput", !.params = Some(p)]
                 ELSE Blank]
  /\ now = 0
  /\ running = 1

NextValidate == ValidateInputCall(1)

SpecValidate == InitValidate /\ [][NextValidate]_vars

\* calculateQuote applied to one request
InitQuote ==
  /\ \E p \in QuoteInputs :
       call = [c \in Calls |->
                 IF c = 1 THEN [Blank EXCEPT !.pc = "validate", !.params = Some(p)]
                 ELSE Blank]
  /\ now = 0
  /\ running = 1

NextQuote == CalculateQuote(1)

SpecQuote == InitQuote /\ [][NextQuote]_vars

\* the tool's handler applied to one input (as the tool's tests call it)
InitHandler ==
  /\ \E params \in HandlerInputs :
       call = [c \in Calls |->
                 IF c = 1 THEN [Blank EXCEPT !.pc = "handler", !.name = ToolName,
                                             !.params = params]
                 ELSE Blank]
  /\ now = 0
  /\ running = 1

NextHandler ==
  \/ InvokeHandler(1)
  \/ CalculateQuote(1)
  \/ Yield(1)
  \/ FormatSummary(1)
  \/ HandlerCatch(1)

SpecHandler == InitHandler /\ [][NextHandler]_vars

\* formatQuoteSummary applied to one quote
InitSummary ==
  /\ \E quote \in SummaryQuotes :
       call = [c \in Calls |->
                 IF c = 1 THEN [Blank EXCEPT !.pc = "formatQuoteSummary",
                                             !.quote = Some(quote)]
                 ELSE Blank]
  /\ now = 0
  /\ running = 1

NextSummary == FormatQuoteSummaryCall(1)

SpecSummary == InitSummary /\ [][NextSummary]_vars

\* the schema's parse of one argument object, and validateInput on what the
\* parse returns (part_000 lines 78-79, up to the validation in calculateQuote)
InitSchema ==
  /\ \E a \in SchemaArguments :
       call = [c \in Calls |->
                 IF c = 1 THEN [Blank EXCEPT !.pc = "parse", !.name = ToolName,
                                             !.arguments = Some(a)]
                 ELSE Blank]
  /\ now = 0
  /\ running = 1

NextSchema ==
  \/ SchemaParse(1)
  \/ InvokeHandler(1)
  \/ Validate(1)

SpecSchema == InitSchema /\ [][NextSchema]_vars

\* the server: tool calls arrive and are served on one thread
Init ==
  /\ call = [c \in Calls |-> Blank]
  /\ now = 0
  /\ running = 0

Next ==
  \/ \E c \in Calls :
       \/ CallToolRequest(c)
       \/ FindTool(c)
       \/ SchemaParse(c)
       \/ InvokeHandler(c)
       \/ CalculateQuote(c)
       \/ Yield(c)
       \/ FormatSummary(c)
       \/ HandlerCatch(c)
       \/ Respond(c)
       \/ Return(c)
  \/ Tick

Spec == Init /\ [][Next]_vars

(***************************************************************************)
(* Properties                                                              *)
(***************************************************************************)
\* the error list of a validation result (empty when errors is undefined)
ErrorList(validation) ==
  IF IsSome(validation.errors) THEN Val(validation.errors) ELSE << >>

\* the position of a message in the validator's order of checks
RuleNumber(msg) == CHOOSE i \in 1..Len(RuleOrder) : RuleOrder[i] = msg

\* C1: validateInput never short-circuits.  The error list is ordered by rule
\* number (so no message occurs twice), the message of a rule is in the list
\* exactly when that rule's own field violates it, whatever the other fields
\* are, and valid is true exactly when the list is empty, errors being absent
\* then.
C1_AllErrorsReported ==
  call[1].pc = "validated" =>
    LET p    == Val(call[1].params)
        v    == Val(call[1].validation)
        errs == ErrorList(v)
    IN  /\ \A i \in 1..Len(errs) : Includes(RuleOrder, errs[i])
        /\ \A i, j \in 1..Len(errs) :
             i < j => RuleNumber(errs[i]) < RuleNumber(errs[j])
        /\ Includes(errs, MsgZipCode) <=>
             ~(Len(p.zipCode) = 5 /\ \A i \in 1..5 : p.zipCode[i] \in Digits)
        /\ Includes(errs, MsgTariffLine) <=>
             p.tariffLine \notin {"basic", "comfort", "premium"}
        /\ Includes(errs, MsgDeductible) <=>
             p.deductibleAmount \notin {0, 150, 300, 500}
        /\ Includes(errs, MsgClaimsNegative) <=> p.numberOfClaims < 0
        /\ Includes(errs, MsgClaimsExceeded) <=> p.numberOfClaims > 10
        /\ Includes(errs, MsgEffectiveDate) <=> ~DateParses(p.effectiveDate)
        /\ Includes(errs, MsgCoverageAmount) <=>
             /\ Truthy(p.coverageAmount)
             /\ ~(Val(p.coverageAmount) \in 5000000..20000000)
        /\ v.valid <=> errs = << >>
        /\ v.valid <=> v.errors = None

\* a request that violates six rules at once has all six messages
C1_Witness ==
  /\ call[1].pc = "validated"
  /\ ErrorList(Val(call[1].validation)) =
       <<MsgZipCode, MsgTariffLine, MsgDeductible, MsgClaimsExceeded,
         MsgEffectiveDate, MsgCoverageAmount>>

\* C2: calculateQuote fails exactly when validateInput reports the request
\* invalid; the failure is a ValidationError whose details are validateInput's
\* ordered error list for that request and it is raised before any pricing
\* statement has run; a request validateInput accepts is never failed and is
\* carried on until its quote is returned.
C2_ValidationGate ==
  LET f == call[1]
      p == Val(f.params)
      v == ValidateInput(p)
  IN  /\ f.pc = "thrown" =>
           /\ ~v.valid
           /\ IsSome(f.thrown)
           /\ Val(f.thrown).name = "ValidationError"
           /\ Val(f.thrown).details = Some(ErrorList(v))
           /\ ErrorList(v) # << >>
           /\ f.coverageAmount = None /\ f.monthlyPremium = None
           /\ f.annualPremium = None /\ f.extensions = << >> /\ f.quote = None
      /\ (~v.valid /\ f.pc # "validate") => f.pc = "thrown"
      /\ v.valid =>
           /\ f.pc # "thrown" /\ f.thrown = None
           /\ f.pc \in {"validate", "coverage", "base", "family", "drones",
                        "deductible", "claims", "cancelled", "annual",
                        "extensions", "build", "returned"}
           /\ running = 1
           /\ f.pc = "returned" => IsSome(f.quote)

\* a request with two invalid fields has been rejected with both messages
C2_Witness ==
  /\ call[1].pc = "thrown"
  /\ Val(call[1].thrown).details = Some(<<MsgZipCode, MsgEffectiveDate>>)

\* the premium in cents as exact arithmetic gives it: the numerator over 8000
\* of (base x family + drones) x deductible x claims x cancellation, with
\* base 5.99 / 9.99 / 14.99, family 1.5 = 3/2, drones 2.50 = 5/2, deductible
\* 1.0 / 0.9 / 0.85 / 0.8 in twentieths, claims 1 + 0.15 n = (20 + 3n)/20
\* and cancellation 1.3 = 13/10
ExactNumerator(p) ==
  ((CASE p.tariffLine = "basic" -> 599
      [] p.tariffLine = "comfort" -> 999
      [] p.tariffLine = "premium" -> 1499)
     * (IF p.familyCoverage THEN 3 ELSE 2)
   + (IF p.dronesCoverage THEN 500 ELSE 0))
  * (CASE p.deductibleAmount = 0 -> 20
       [] p.deductibleAmount = 150 -> 18
       [] p.deductibleAmount = 300 -> 17
       [] p.deductibleAmount = 500 -> 16)
  * (20 + 3 * p.numberOfClaims)
  * (IF p.cancelledByInsurer THEN 13 ELSE 10)

\* n / 8000 rounded to the nearest integer, halves up
HalfUp8000(n) == (2 * n + 8000) \div 16000

\* C3: the monthlyPremium of every returned quote is the exact value of
\* (base x family + drones) x deductible x (1 + 0.15 x claims) x cancellation
\* rounded half up to cents.
C3_MonthlyPremium ==
  call[1].pc = "returned" =>
    Val(call[1].quote).monthlyPremium
      = HalfUp8000(ExactNumerator(Val(call[1].params)))

\* a quote with every pricing factor in play, several claims included
C3_Witness ==
  /\ call[1].pc = "returned"
  /\ LET p == Val(call[1].params)
     IN  /\ p.familyCoverage /\ p.dronesCoverage /\ p.cancelledByInsurer
         /\ p.deductibleAmount = 300 /\ p.numberOfClaims = 7
         /\ p.tariffLine = "premium"
  /\ Val(call[1].quote).monthlyPremium = 5660

C5_AnnualFromRoundedMonthly ==
  call[1].pc = "returned" =>
    Val(call[1].quote).annualPremium = 12 * Val(call[1].quote).monthlyPremium

\* C6: comfort, family coverage, no drones, deductible 150, one claim and no
\* cancellation give 15.51 a month and 186.12 a year.
C6_WorkedExample ==
  LET p == Val(call[1].params)
  IN  ( /\ call[1].pc = "returned"
        /\ p.tariffLine = "comfort" /\ p.familyCoverage /\ ~p.dronesCoverage
        /\ p.deductibleAmount = 150 /\ p.numberOfClaims = 1
        /\ ~p.cancelledByInsurer )
      => /\ Val(call[1].quote).monthlyPremium = 1551
         /\ Val(call[1].quote).annualPremium = 18612

\* C7: for a request that carries a coverageAmount, whatever its value,
\* validateInput reports the coverage-amount message exactly when the value is
\* below 5,000,000 or above 20,000,000.
C7_CoverageRange ==
  ( /\ call[1].pc = "validated"
    /\ IsSome(Val(call[1].params).coverageAmount) )
  => ( Includes(ErrorList(Val(call[1].validation)), MsgCoverageAmount)
       <=> \/ Val(Val(call[1].params).coverageAmount) < 5000000
           \/ Val(Val(call[1].params).coverageAmount) > 20000000 )

\* C8: the coverageSum of every returned quote lies within 5,000,000 and
\* 20,000,000: it is the default of the tariff line (basic 5,000,000, comfort
\* 10,000,000, premium 20,000,000) or the coverageAmount of the request.
C8_CoverageSum ==
  call[1].pc = "returned" =>
    LET p == Val(call[1].params)
        q == Val(call[1].quote)
    IN  /\ q.coverageSum >= 5000000 /\ q.coverageSum <= 20000000
        /\ \/ q.coverageSum = (CASE p.tariffLine = "basic" -> 5000000
                                 [] p.tariffLine = "comfort" -> 10000000
                                 [] p.tariffLine = "premium" -> 20000000)
           \/ /\ IsSome(p.coverageAmount)
              /\ q.coverageSum = Val(p.coverageAmount)
              /\ ~Includes(ErrorList(Val(call[1].validation)), MsgCoverageAmount)

\* a quote whose coverageSum is the request's coverageAmount and not the
\* default of its tariff line
C8_Witness ==
  /\ call[1].pc = "returned"
  /\ Val(call[1].params).tariffLine = "basic"
  /\ Val(call[1].params).coverageAmount = Some(15000000)
  /\ Val(call[1].quote).coverageSum = 15000000

\* the premiums calculateQuote returns for a request: the statements of lines
\* 82-121 one after the other
PremiumsOf(p) ==
  LET m == ApplyCancelled(p, ApplyClaims(p, ApplyDeductible(p,
             ApplyDrones(p, ApplyFamily(p, BasePremiums(p.tariffLine))))))
  IN  [monthlyPremium |-> Round2(m), annualPremium |-> Round2(AnnualOf(m))]

\* the request with the same pricing fields and fixed values elsewhere
SamePricing(p) ==
  [p EXCEPT !.zipCode = <<"1", "0", "1", "1", "5">>,
            !.previousInsurance = FALSE,
            !.effectiveDate = <<"2", "0", "2", "5", "-", "0", "1", "-", "0", "1">>,
            !.coverageAmount = None]

\* C9: the premiums of a returned quote are those of the request that has the
\* same tariffLine, familyCoverage, dronesCoverage, deductibleAmount,
\* numberOfClaims and cancelledByInsurer and fixed zipCode, previousInsurance,
\* effectiveDate and coverageAmount; so two valid requests that agree on the
\* six pricing fields get the same monthlyPremium and annualPremium.
C9_PremiumNonInterference ==
  call[1].pc = "returned" =>
    LET q == Val(call[1].quote)
        r == PremiumsOf(SamePricing(Val(call[1].params)))
    IN  /\ q.monthlyPremium = r.monthlyPremium
        /\ q.annualPremium = r.annualPremium

\* a quote for a request that differs from the fixed one in all four fields
C9_Witness ==
  /\ call[1].pc = "returned"
  /\ LET p == Val(call[1].params)
     IN  /\ p.previousInsurance
         /\ p.coverageAmount = Some(15000000)
         /\ p.zipCode # SamePricing(p).zipCode
         /\ p.effectiveDate # SamePricing(p).effectiveDate
         /\ p.deductibleAmount = 500 /\ p.numberOfClaims = 3

\* what a response says apart from quoteId, validUntil and the summary text
Deterministic(response) ==
  [isError |-> response.isError,
   success |-> response.payload.success,
   error   |-> response.payload.error,
   quote   |-> IF IsSome(response.payload.quote)
               THEN LET q == Val(response.payload.quote)
                    IN  Some([monthlyPremium |-> q.monthlyPremium,
                              annualPremium  |-> q.annualPremium,
                              coverageSum    |-> q.coverageSum,
                              deductible     |-> q.deductible,
                              extensions     |-> q.extensions,
                              tariffLine     |-> q.tariffLine,
                              familyCoverage |-> q.familyCoverage])
               ELSE None]

\* C10: calls are independent.  Whatever calls ran before or in between, two
\* answered calls with the same tool name and arguments have the same
\* monthlyPremium, annualPremium, coverageSum, deductible, extensions,
\* tariffLine and familyCoverage (and the same outcome).
C10_CallsIndependent ==
  \A c1, c2 \in Calls :
    ( /\ call[c1].pc = "done" /\ call[c2].pc = "done"
      /\ call[c1].name = call[c2].name
      /\ call[c1].arguments = call[c2].arguments )
    => Deterministic(Val(call[c1].response)) = Deterministic(Val(call[c2].response))

\* two answered calls with the same arguments whose quotes differ in quoteId
\* and in validUntil
C10_Witness ==
  \E c1, c2 \in Calls :
    /\ c1 # c2
    /\ call[c1].pc = "done" /\ call[c2].pc = "done"
    /\ call[c1].arguments = call[c2].arguments
    /\ IsSome(Val(call[c1].response).payload.quote)
    /\ IsSome(Val(call[c2].response).payload.quote)
    /\ Val(Val(call[c1].response).payload.quote).quoteId
         # Val(Val(call[c2].response).payload.quote).quoteId
    /\ Val(Val(call[c1].response).payload.quote).validUntil
         # Val(Val(call[c2].response).payload.quote).validUntil


\* C11: in every returned quote, extensions holds 'drones_coverage' exactly
\* when the request's dronesCoverage is true and 'family_coverage' exactly when
\* familyCoverage is true, holds nothing else and nothing twice, and has
\* 'drones_coverage' before 'family_coverage' when both are there; the quote's
\* familyCoverage, tariffLine and deductible are the request's familyCoverage,
\* tariffLine and deductibleAmount.
C11_Extensions ==
  call[1].pc = "returned" =>
    LET p == Val(call[1].params)
        q == Val(call[1].quote)
        e == q.extensions
    IN  /\ Includes(e, "drones_coverage") <=> p.dronesCoverage
        /\ Includes(e, "family_coverage") <=> p.familyCoverage
        /\ \A i \in 1..Len(e) : e[i] \in {"drones_coverage", "family_coverage"}
        /\ \A i, j \in 1..Len(e) : e[i] = e[j] => i = j
        /\ \A i, j \in 1..Len(e) :
             (e[i] = "drones_coverage" /\ e[j] = "family_coverage") => i < j
        /\ q.familyCoverage = p.familyCoverage
        /\ q.tariffLine = p.tariffLine
        /\ q.deductible = p.deductibleAmount

\* a quote for a request with both drones and family coverage
C11_Witness ==
  /\ call[1].pc = "returned"
  /\ Val(call[1].params).dronesCoverage /\ Val(call[1].params).familyCoverage
  /\ Val(call[1].params).deductibleAmount = 300
  /\ Len(Val(call[1].quote).extensions) = 2

\* C12: validateInput reports 'Number of claims cannot be negative' exactly
\* when numberOfClaims < 0 and 'Number of claims exceeds maximum allowed (10)'
\* exactly when numberOfClaims > 10; the two never come together; 10 gets
\* neither of them and 11 gets the second.
C12_ClaimsBounds ==
  call[1].pc = "validated" =>
    LET n      == Val(call[1].params).numberOfClaims
        v      == Val(call[1].validation)
        errors == ErrorList(v)
    IN  /\ Includes(errors, MsgClaimsNegative) <=> n < 0
        /\ Includes(errors, MsgClaimsExceeded) <=> n > 10
        /\ ~(Includes(errors, MsgClaimsNegative) /\ Includes(errors, MsgClaimsExceeded))
        /\ n = 10 => /\ ~Includes(errors, MsgClaimsNegative)
                     /\ ~Includes(errors, MsgClaimsExceeded)
        /\ n = 11 => Includes(errors, MsgClaimsExceeded) /\ ~v.valid
        /\ n \in 0..10 =>
             errors = ErrorList(ValidateInput(
                        [Val(call[1].params) EXCEPT !.numberOfClaims = 0]))

\* an otherwise valid request with 11 claims: the one error, and invalid
C12_Witness ==
  /\ call[1].pc = "validated"
  /\ Val(call[1].params).numberOfClaims = 11
  /\ ~Val(call[1].validation).valid
  /\ Val(call[1].validation).errors = Some(<<MsgClaimsExceeded>>)

\* C13: when calculateQuote rejects the request with a ValidationError, the
\* handler returns success = false, no quote, error = 'Validation error: ' and
\* the exception's message, and summary = 'Failed to calculate quote: ' and
\* all of validateInput's messages in the validator's order joined by ', ';
\* on any other fault it returns success = false, the fault's message as error
\* and the summary 'Failed to calculate quote due to an unexpected error'.
C13_HandlerErrorEnvelope ==
  (call[1].pc = "handled" /\ IsSome(call[1].thrown)) =>
    LET thrown == Val(call[1].thrown)
        result == Val(call[1].result)
    IN  IF IsSome(call[1].params) /\ ~ValidateInput(Val(call[1].params)).valid
        THEN /\ thrown.name = "ValidationError"
             /\ result.success = FALSE
             /\ result.quote = None
             /\ result.error = Some("Validation error: " \o thrown.message)
             /\ result.error = Some("Validation error: Invalid parameters")
             /\ result.summary =
                  Some("Failed to calculate quote: "
                       \o Join(Errors(Val(call[1].params)), ", "))
        ELSE /\ thrown.name # "ValidationError"
             /\ result.success = FALSE
             /\ result.quote = None
             /\ result.error = Some(thrown.message)
             /\ result.summary =
                  Some("Failed to calculate quote due to an unexpected error")

\* the handler has answered a request with a bad zipCode, a bad tariffLine and
\* a bad date: three messages in the summary
C13_Witness ==
  /\ call[1].pc = "handled"
  /\ IsSome(call[1].params)
  /\ Val(call[1].result).summary =
       Some("Failed to calculate quote: " \o MsgZipCode \o ", " \o MsgTariffLine
            \o ", " \o MsgEffectiveDate)

\* C14: the handler is total.  For every input (a valid or an invalid request,
\* the object {} or null) it runs on until it returns a result and never
\* raises; every result has a summary, success = true goes with a quote and no
\* error, success = false with an error and no quote.
C14_HandlerTotal ==
  LET f == call[1]
  IN  /\ \/ f.pc \in {"handler", "validate"} /\ running = 1
         \/ f.pc \in {"coverage", "base", "family", "drones", "deductible",
                      "claims", "cancelled", "annual", "extensions", "build"}
              /\ running = 1 /\ IsSome(f.params)
         \/ f.pc = "returned" /\ running \in {0, 1} /\ IsSome(f.quote)
         \/ f.pc = "thrown" /\ running \in {0, 1} /\ IsSome(f.thrown)
         \/ f.pc = "handled" /\ IsSome(f.result)
      /\ f.pc = "handled" =>
           LET result == Val(f.result)
           IN  /\ IsSome(result.summary)
               /\ result.success \in BOOLEAN
               /\ result.success <=> (IsSome(result.quote) /\ ~IsSome(result.error))
               /\ ~result.success <=> (IsSome(result.error) /\ ~IsSome(result.quote))

\* the handler has answered the input null
C14_Witness ==
  /\ call[1].pc = "handled"
  /\ ~IsSome(call[1].params)
  /\ Val(call[1].result).success = FALSE
  /\ Val(call[1].result).error = Some(NullRead.message)

\* C15: formatQuoteSummary puts the segments in this order: the premium line,
\* the coverage line, 'Deductible: <amount>' when deductible > 0 and
\* 'No deductible' otherwise, 'Includes family coverage' exactly when the
\* quote's familyCoverage flag is true, 'Includes drone liability' exactly
\* when extensions holds 'drones_coverage', the territory line, the validity
\* line; there are 5 to 7 segments, '. ' stands between two segments and one
\* '.' ends the string.
C15_SummarySegments ==
  call[1].pc = "formatted" =>
    LET q        == Val(call[1].quote)
        family   == q.familyCoverage
        drones   == \E i \in 1..Len(q.extensions) : q.extensions[i] = "drones_coverage"
        segments == 5 + (IF family THEN 1 ELSE 0) + (IF drones THEN 1 ELSE 0)
    IN  /\ Val(call[1].result) =
             "Liability Insurance Quote: €" \o NumText(q.monthlyPremium)
               \o "/month (€" \o NumText(q.annualPremium) \o "/year)" \o ". "
             \o "Coverage: €" \o Grouped(q.coverageSum) \o " " \o q.tariffLine \o ". "
             \o (IF q.deductible > 0
                 THEN "Deductible: €" \o ToString(q.deductible)
                 ELSE "No deductible") \o ". "
             \o (IF family THEN "Includes family coverage. " ELSE "")
             \o (IF drones THEN "Includes drone liability. " ELSE "")
             \o "Territory: " \o q.territory \o ". "
             \o "Valid until: " \o LocaleDate(q.validUntil) \o "."
        /\ Len(SummaryParts(q)) = segments
        /\ segments \in 5..7

\* the summary of a quote with a deductible, the familyCoverage flag and both
\* extensions, family first: seven segments
C15_Witness ==
  /\ call[1].pc = "formatted"
  /\ LET q == Val(call[1].quote)
     IN  /\ q.familyCoverage /\ q.deductible = 150
         /\ q.extensions = <<"family_coverage", "drones_coverage">>
         /\ q.monthlyPremium = 1349 /\ q.annualPremium = 16184
         /\ q.coverageSum = 10000000 /\ q.tariffLine = "comfort"
         /\ q.validUntil = ThirtyDays
  /\ Val(call[1].result) =
       "Liability Insurance Quote: €13.49/month (€161.84/year). "
       \o "Coverage: €10,000,000 comfort. Deductible: €150. "
       \o "Includes family coverage. Includes drone liability. "
       \o "Territory: Worldwide. Valid until: day 30."

\* C16: drone coverage costs a flat 2.50 EUR per month: the monthlyPremium of
\* a quote with dronesCoverage is exactly 2.50 above the monthlyPremium of the
\* same request without dronesCoverage.
C16_DronesFlatSurcharge ==
  (call[1].pc = "returned" /\ Val(call[1].params).dronesCoverage) =>
    Val(call[1].quote).monthlyPremium =
      PremiumsOf([Val(call[1].params) EXCEPT !.dronesCoverage = FALSE]).monthlyPremium
        + 250

\* C17: the rounded monthlyPremium is strictly monotone in every pricing
\* factor.  With all other fields equal, a higher deductible tier gives a
\* strictly lower monthlyPremium, and familyCoverage, dronesCoverage,
\* cancelledByInsurer turned on or one claim more each give a strictly higher
\* one.
C17_Monotone ==
  call[1].pc = "returned" =>
    LET p == Val(call[1].params)
        m == Val(call[1].quote).monthlyPremium
    IN  /\ \A d \in Deductibles :
             d > p.deductibleAmount =>
               PremiumsOf([p EXCEPT !.deductibleAmount = d]).monthlyPremium < m
        /\ ~p.familyCoverage =>
             PremiumsOf([p EXCEPT !.familyCoverage = TRUE]).monthlyPremium > m
        /\ ~p.dronesCoverage =>
             PremiumsOf([p EXCEPT !.dronesCoverage = TRUE]).monthlyPremium > m
        /\ ~p.cancelledByInsurer =>
             PremiumsOf([p EXCEPT !.cancelledByInsurer = TRUE]).monthlyPremium > m
        /\ p.numberOfClaims < 10 =>
             PremiumsOf([p EXCEPT !.numberOfClaims = @ + 1]).monthlyPremium > m

\* a quote for the cheapest request that has a tier above, every flag off and
\* claims to add: basic, deductible 300, no claims
C17_Witness ==
  /\ call[1].pc = "returned"
  /\ LET p == Val(call[1].params)
     IN  /\ p.tariffLine = "basic" /\ p.deductibleAmount = 300
         /\ ~p.familyCoverage /\ ~p.dronesCoverage /\ ~p.cancelledByInsurer
         /\ p.numberOfClaims = 0
  /\ Val(call[1].quote).monthlyPremium = 509

\* C18: every quote calculateQuote returns is fully populated: monthlyPremium
\* and annualPremium are not negative, currency is 'EUR', territory is
\* 'Worldwide', includedRisks is personal_injury, property_damage,
\* financial_loss in this order, and quoteId, coverageSum, deductible,
\* extensions, validUntil, tariffLine and familyCoverage are all defined.
C18_QuotePopulated ==
  call[1].pc = "returned" =>
    LET q == Val(call[1].quote)
    IN  /\ DOMAIN q = {"quoteId", "monthlyPremium", "annualPremium", "currency",
                       "coverageSum", "deductible", "territory", "includedRisks",
                       "extensions", "validUntil", "tariffLine", "familyCoverage"}
        /\ q.monthlyPremium >= 0
        /\ q.annualPremium >= 0
        /\ q.currency = "EUR"
        /\ q.territory = "Worldwide"
        /\ q.includedRisks = <<"personal_injury", "property_damage", "financial_loss">>
        /\ q.quoteId.ts \in 0..MaxNow /\ q.quoteId.suffix \in RandomSuffixes
        /\ q.coverageSum \in Nat /\ q.coverageSum > 0
        /\ q.deductible \in Deductibles
        /\ \A i \in 1..Len(q.extensions) :
              q.extensions[i] \in {"drones_coverage", "family_coverage"}
        /\ BBitLen(q.validUntil) > 0
        /\ q.tariffLine \in TariffLines
        /\ q.familyCoverage \in BOOLEAN

\* the cheapest quote: basic with deductible 500 and nothing else, 4.79 a month
C18_Witness ==
  /\ call[1].pc = "returned"
  /\ Val(call[1].quote).monthlyPremium = 479
  /\ Val(call[1].quote).annualPremium = 5750
  /\ Val(call[1].quote).extensions = << >>

\* C19: every failed tool call made through the server (an unknown tool name,
\* arguments the input schema rejects, a request the core's validator rejects,
\* an unexpected fault) gets a response whose payload has success = false and
\* an error message that is not empty.
C19_FailuresStructured ==
  \A c \in Calls :
    (call[c].pc \in {"done", "rejected"} /\ IsSome(call[c].thrown)) =>
      /\ IsSome(call[c].response)
      /\ Val(call[c].response).payload.success = FALSE
      /\ IsSome(Val(call[c].response).payload.error)
      /\ Val(Val(call[c].response).payload.error) # ""

\* the steps of a tool call that may follow one another: tool lookup, then the
\* schema parse, then the handler, then validateInput, then pricing
StepOrder ==
  { <<"idle", "lookup">>, <<"lookup", "parse">>, <<"lookup", "rejected">>,
    <<"parse", "handler">>, <<"parse", "done">>, <<"handler", "validate">>,
    <<"validate", "coverage">>, <<"validate", "thrown">>,
    <<"coverage", "base">>, <<"base", "family">>, <<"family", "drones">>,
    <<"drones", "deductible">>, <<"deductible", "claims">>,
    <<"claims", "cancelled">>, <<"cancelled", "annual">>,
    <<"annual", "extensions">>, <<"extensions", "build">>,
    <<"build", "returned">>, <<"returned", "handled">>,
    <<"thrown", "handled">>, <<"handled", "done">>,
    <<"done", "idle">>, <<"rejected", "idle">> }

\* the positions at which the handler has been invoked
InHandler ==
  {"handler", "validate", "coverage", "base", "family", "drones", "deductible",
   "claims", "cancelled", "annual", "extensions", "build", "returned", "thrown",
   "handled"}

\* the positions at or after a pricing step
InPricing ==
  {"coverage", "base", "family", "drones", "deductible", "claims", "cancelled",
   "annual", "extensions", "build", "returned"}

\* what has and has not happened in call c, from what its frame holds
OrderedSoFar(c) ==
  LET f == call[c]
      priced == \/ IsSome(f.coverageAmount) \/ IsSome(f.monthlyPremium)
                \/ IsSome(f.annualPremium) \/ IsSome(f.quote)
  IN  /\ f.pc \in InHandler =>
           /\ f.name = ToolName
           /\ SchemaIssues(Val(f.arguments)) = << >>
           /\ f.params = Some(SchemaOutput(Val(f.arguments)))
      /\ f.pc \in {"lookup", "parse", "rejected"} =>
           ~IsSome(f.params) /\ ~IsSome(f.validation) /\ ~priced
      /\ f.pc = "rejected" =>
           /\ f.name # ToolName
           /\ f.thrown = Some([name    |-> "Error",
                               message |-> "Unknown tool: " \o f.name,
                               details |-> None])
           /\ ~IsSome(f.result) /\ ~IsSome(f.response)
      /\ (f.pc = "done" /\ SchemaIssues(Val(f.arguments)) # << >>) =>
           ~IsSome(f.params) /\ ~IsSome(f.validation) /\ ~priced /\ ~IsSome(f.result)
      /\ f.pc \in {"handler", "validate"} => ~IsSome(f.validation) /\ ~priced
      /\ f.pc \in InPricing =>
           /\ IsSome(f.validation)
           /\ Val(f.validation) = ValidateInput(Val(f.params))
           /\ Val(f.validation).valid
      /\ priced => IsSome(f.validation) /\ Val(f.validation).valid
      /\ f.pc = "thrown" => IsSome(f.validation) /\ ~Val(f.validation).valid /\ ~priced

\* C20: in every tool call the steps come in the order tool lookup, schema
\* parse, handler, validateInput, pricing.  The handler is invoked only when the
\* tool was found and the parse succeeded; an unknown tool name raises
\* 'Unknown tool: <name>' and nothing is parsed or invoked; and once the
\* handler is invoked validateInput runs before any pricing step, although the
\* schema has already accepted the arguments.
C20_StepOrder ==
  /\ [](\A c \in Calls : OrderedSoFar(c))
  /\ [][\A c \in Calls :
          call'[c].pc # call[c].pc => <<call[c].pc, call'[c].pc>> \in StepOrder]_vars

\* a call whose arguments the schema accepted and whose request validateInput
\* then rejected, before any pricing
C20_Witness ==
  \E c \in Calls :
    /\ call[c].pc = "thrown"
    /\ SchemaIssues(Val(call[c].arguments)) = << >>
    /\ IsSome(call[c].validation)
    /\ Val(call[c].validation).errors = Some(<<MsgEffectiveDate>>)
    /\ ~IsSome(call[c].monthlyPremium)

\* C21: in every returned quote, validUntil is exactly 30 days
\* (2,592,000,000 ms) after the creation timestamp that the quote's quoteId
\* holds, whatever the clock does between two reads.
C21_ValidUntil ==
  call[1].pc = "returned" =>
    LET q == Val(call[1].quote)
    IN  q.validUntil = BAdd(BFromInt(q.quoteId.ts), ThirtyDays)

\* C22: for a known tool the response has isError = true exactly when the
\* input schema's parse of the arguments fails.  Once the parse has succeeded
\* the response is never isError and 'Tool execution completed' with
\* success = true is logged, also when the handler's payload has
\* success = false because validateInput rejected the request.
C22_IsErrorIffParseFails ==
  \A c \in Calls :
    (call[c].pc = "done" /\ call[c].name = ToolName) =>
      LET f        == call[c]
          response == Val(f.response)
          parsed   == SchemaIssues(Val(f.arguments)) = << >>
          logged(e) == \E i \in 1..Len(f.log) : f.log[i] = e
      IN  /\ response.isError <=> ~parsed
          /\ parsed =>
               /\ ~response.isError
               /\ f.log[Len(f.log)] =
                    [level |-> "info", message |-> "Tool execution completed",
                     success |-> Some(TRUE)]
               /\ ~logged([level |-> "error", message |-> "Tool execution failed",
                           success |-> None])
               /\ response.payload = Val(f.result)
          /\ ~parsed =>
               /\ logged([level |-> "error", message |-> "Tool execution failed",
                          success |-> None])
               /\ ~logged([level |-> "info", message |-> "Tool execution completed",
                           success |-> Some(TRUE)])
               /\ response.payload.success = FALSE

\* an answered call whose arguments the schema accepted and validateInput
\* rejected: the payload has success = false, the response is not isError and
\* the log says success = true
C22_Witness ==
  \E c \in Calls :
    /\ call[c].pc = "done"
    /\ IsSome(call[c].validation) /\ ~Val(call[c].validation).valid
    /\ Val(call[c].response).payload.success = FALSE
    /\ Val(call[c].response).isError = FALSE
    /\ call[c].log = <<[level |-> "info", message |-> "Executing tool",
                        success |-> None],
                       [level |-> "info", message |-> "Tool execution completed",
                        success |-> Some(TRUE)]>>

=============================================================================
